---- MODULE Spec2Model ----
(***************************************************************************)
(* Model of the interval-consistency engine of RosterApp-V2.tsx: the task  *)
(* store (React state `tasks`), the id counter `seq`, the selection, and   *)
(* the operations resolveOverlaps, mergeAdjacent, addTaskAt (the spec's    *)
(* placeTask) and the keyboard delete (the spec's removeTask); and of the  *)
(* time helpers toRow and rowToTime, whose inputs and results are held in  *)
(* `clock`. A string is a sequence of one-character strings.               *)
(*                                                                         *)
(* A task id `t_<n>` is represented by the number n; "no id" (undefined /  *)
(* null) is 0, which uid() never returns.                                  *)
(***************************************************************************)
EXTENDS Integers, Sequences, FiniteSets

VARIABLES tasks, seq, selectedId, pre, last, clock

vars == <<tasks, seq, selectedId, pre, last, clock>>

(* ---------------- program constants ---------------- *)

DAY_START_MIN == 9 * 60 + 30

TOTAL_ROWS == 26

NoId == 0

EmployeeIds == {"e_john", "e_robert", "e_mary"}

TaskTypes ==
  {"front", "gallery", "break", "prep", "tour", "tidy", "school-pre", "school-program"}

TYPE_LABEL ==
  [k \in TaskTypes |->
     CASE k = "front" -> "Front Desk"
       [] k = "gallery" -> "Gallery"
       [] k = "break" -> "Break"
       [] k = "prep" -> "Prep"
       [] k = "tour" -> "Public Tour"
       [] k = "tidy" -> "Finish"
       [] k = "school-pre" -> "School Pre"
       [] k = "school-program" -> "School Program"]

isTourLike(t) == t = "tour" \/ t = "school-program"

(* ---------------- time helpers ---------------- *)

DigitChars == <<"0", "1", "2", "3", "4", "5", "6", "7", "8", "9">>

\* Number.prototype.toString of a natural number
RECURSIVE ToString(_)
ToString(n) ==
  IF n < 10 THEN <<DigitChars[n + 1]>>
  ELSE ToString(n \div 10) \o <<DigitChars[(n % 10) + 1]>>

\* String.prototype.padStart(2, "0")
PadStart2(str) == IF Len(str) < 2 THEN <<"0">> \o str ELSE str

\* Number(str) of a string of decimal digits
RECURSIVE ToNumber(_)
ToNumber(str) ==
  IF str = <<>> THEN 0
  ELSE LET c == str[Len(str)]
           d == CHOOSE v \in 0..9 : DigitChars[v + 1] = c
       IN 10 * ToNumber(SubSeq(str, 1, Len(str) - 1)) + d

\* hhmm.split(":"), destructured into [h, m]
SplitColon(hhmm) ==
  LET i == CHOOSE k \in 1..Len(hhmm) :
             hhmm[k] = ":" /\ \A j \in 1..(k - 1) : hhmm[j] # ":"
  IN <<SubSeq(hhmm, 1, i - 1), SubSeq(hhmm, i + 1, Len(hhmm))>>

Min(a, b) == IF a <= b THEN a ELSE b

Max(a, b) == IF a >= b THEN a ELSE b

\* toRow that forgets the minutes
toRow_HourOnly(hhmm) ==
  LET hm == SplitColon(hhmm)
      mins == ToNumber(hm[1]) * 60
  IN Max(0, Min(TOTAL_ROWS, (mins - DAY_START_MIN) \div 15))

toRow(hhmm) ==
  LET hm == SplitColon(hhmm)
      mins == ToNumber(hm[1]) * 60 + ToNumber(hm[2])
  IN Max(0, Min(TOTAL_ROWS, (mins - DAY_START_MIN) \div 15))

rowToTime(row) ==
  LET mins == DAY_START_MIN + row * 15
      h == PadStart2(ToString(mins \div 60))
      m == PadStart2(ToString(mins % 60))
  IN h \o <<":">> \o m

(* ---------------- bounds of the model ---------------- *)

\* uid() is called at most until seq reaches MaxSeq (the seed uses t_1, t_2)
MaxSeq == 4

\* rows offered to placeTask are 0 .. MaxRow-1 (plus the invalid rows), and
\* ranges offered to resolveOverlaps lie within [0, MaxRow]
MaxRow == 3

\* number of tasks of an arbitrary store (SpecFn)
MaxTasks == 3

(* ---------------- sequence helpers ---------------- *)

Range(s) == {s[i] : i \in 1..Len(s)}

RECURSIVE Flatten(_)
Flatten(ss) == IF ss = <<>> THEN <<>> ELSE Head(ss) \o Flatten(Tail(ss))

(* ---------------- resolveOverlaps ---------------- *)

\* left trim that leaves the task as it was
ResolveOne_NoLeftTrim(t, empId, start, end, exceptId) ==
  IF t.empId # empId \/ t.id = exceptId THEN <<t>>
  ELSE IF t.end <= start \/ t.start >= end THEN <<t>>
  ELSE IF t.start >= start /\ t.end <= end THEN <<>>
  ELSE IF t.start < start /\ t.end <= end THEN <<t>>
  ELSE IF t.start >= start /\ t.end > end THEN <<[t EXCEPT !.start = end]>>
  ELSE IF t.start < start /\ t.end > end
       THEN <<[t EXCEPT !.end = start], [t EXCEPT !.start = end]>>
  ELSE <<>>

\* right trim that writes the wrong bound
ResolveOne_RightTrimTypo(t, empId, start, end, exceptId) ==
  IF t.empId # empId \/ t.id = exceptId THEN <<t>>
  ELSE IF t.end <= start \/ t.start >= end THEN <<t>>
  ELSE IF t.start >= start /\ t.end <= end THEN <<>>
  ELSE IF t.start < start /\ t.end <= end THEN <<[t EXCEPT !.end = start]>>
  ELSE IF t.start >= start /\ t.end > end THEN <<[t EXCEPT !.start = start]>>
  ELSE IF t.start < start /\ t.end > end
       THEN <<[t EXCEPT !.end = start], [t EXCEPT !.start = end]>>
  ELSE <<>>

\* split that keeps only the head
ResolveOne_SplitDropsTail(t, empId, start, end, exceptId) ==
  IF t.empId # empId \/ t.id = exceptId THEN <<t>>
  ELSE IF t.end <= start \/ t.start >= end THEN <<t>>
  ELSE IF t.start >= start /\ t.end <= end THEN <<>>
  ELSE IF t.start < start /\ t.end <= end THEN <<[t EXCEPT !.end = start]>>
  ELSE IF t.start >= start /\ t.end > end THEN <<[t EXCEPT !.start = end]>>
  ELSE IF t.start < start /\ t.end > end
       THEN <<[t EXCEPT !.end = start]>>
  ELSE <<>>

\* split whose tail starts at start instead of end
ResolveOne_SplitTypo(t, empId, start, end, exceptId) ==
  IF t.empId # empId \/ t.id = exceptId THEN <<t>>
  ELSE IF t.end <= start \/ t.start >= end THEN <<t>>
  ELSE IF t.start >= start /\ t.end <= end THEN <<>>
  ELSE IF t.start < start /\ t.end <= end THEN <<[t EXCEPT !.end = start]>>
  ELSE IF t.start >= start /\ t.end > end THEN <<[t EXCEPT !.start = end]>>
  ELSE IF t.start < start /\ t.end > end
       THEN <<[t EXCEPT !.end = start], [t EXCEPT !.start = start]>>
  ELSE <<>>

\* guard that forgets the employee test
ResolveOne_AnyEmployee(t, empId, start, end, exceptId) ==
  IF t.id = exceptId THEN <<t>>
  ELSE IF t.end <= start \/ t.start >= end THEN <<t>>
  ELSE IF t.start >= start /\ t.end <= end THEN <<>>
  ELSE IF t.start < start /\ t.end <= end THEN <<[t EXCEPT !.end = start]>>
  ELSE IF t.start >= start /\ t.end > end THEN <<[t EXCEPT !.start = end]>>
  ELSE IF t.start < start /\ t.end > end
       THEN <<[t EXCEPT !.end = start], [t EXCEPT !.start = end]>>
  ELSE <<>>

\* left trim tested with <= and before the drop
ResolveOne_TrimBeforeDrop(t, empId, start, end, exceptId) ==
  IF t.empId # empId \/ t.id = exceptId THEN <<t>>
  ELSE IF t.end <= start \/ t.start >= end THEN <<t>>
  ELSE IF t.start <= start /\ t.end <= end THEN <<[t EXCEPT !.end = start]>>
  ELSE IF t.start >= start /\ t.end <= end THEN <<>>
  ELSE IF t.start >= start /\ t.end > end THEN <<[t EXCEPT !.start = end]>>
  ELSE IF t.start < start /\ t.end > end
       THEN <<[t EXCEPT !.end = start], [t EXCEPT !.start = end]>>
  ELSE <<>>

\* the body of the `for (const t of prev)` loop: what is appended to `next` for t
ResolveOne(t, empId, start, end, exceptId) ==
  IF t.empId # empId \/ t.id = exceptId THEN <<t>>
  ELSE IF t.end <= start \/ t.start >= end THEN <<t>>
  ELSE IF t.start >= start /\ t.end <= end THEN <<>>
  ELSE IF t.start < start /\ t.end <= end THEN <<[t EXCEPT !.end = start]>>
  ELSE IF t.start >= start /\ t.end > end THEN <<[t EXCEPT !.start = end]>>
  ELSE IF t.start < start /\ t.end > end
       THEN <<[t EXCEPT !.end = start], [t EXCEPT !.start = end]>>
  ELSE <<>>

resolveOverlaps(prev, empId, start, end, exceptId) ==
  Flatten([i \in 1..Len(prev) |-> ResolveOne(prev[i], empId, start, end, exceptId)])

(* ---------------- mergeAdjacent ---------------- *)

\* Array.prototype.sort with (a, b) => a.start - b.start; the sort is stable
RECURSIVE InsertByStart(_, _)
InsertByStart(sorted, t) ==
  IF sorted = <<>> THEN <<t>>
  ELSE IF Head(sorted).start <= t.start
       THEN <<Head(sorted)>> \o InsertByStart(Tail(sorted), t)
       ELSE <<t>> \o sorted

RECURSIVE SortByStart(_)
SortByStart(arr) ==
  IF arr = <<>> THEN <<>>
  ELSE InsertByStart(SortByStart(SubSeq(arr, 1, Len(arr) - 1)), arr[Len(arr)])

\* sameKind without the label test
sameKind_NoLabel(lastKept, t) ==
  /\ lastKept.type = t.type
  /\ lastKept.end = t.start
  /\ ~isTourLike(t.type)
  /\ ~isTourLike(lastKept.type)

\* sameKind without the tour lock
sameKind_NoTourLock(lastKept, t) ==
  /\ lastKept.type = t.type
  /\ lastKept.label = t.label
  /\ lastKept.end = t.start

\* the `sameKind` test of the walk (last is the last element of keep)
sameKind(lastKept, t) ==
  /\ lastKept.type = t.type
  /\ lastKept.label = t.label
  /\ lastKept.end = t.start
  /\ ~isTourLike(t.type)
  /\ ~isTourLike(lastKept.type)

\* the `for (const t of arr)` walk building `keep`
RECURSIVE MergeWalk(_, _)
MergeWalk(arr, keep) ==
  IF arr = <<>> THEN keep
  ELSE LET t == Head(arr)
           n == Len(keep)
       IN IF n > 0 /\ sameKind(keep[n], t)
          THEN MergeWalk(Tail(arr), [keep EXCEPT ![n].end = t.end])
          ELSE MergeWalk(Tail(arr), Append(keep, t))

OfEmp(prev, empId) == SelectSeq(prev, LAMBDA t : t.empId = empId)

NotOfEmp(prev, empId) == SelectSeq(prev, LAMBDA t : t.empId # empId)

\* `others` taken to be all of prev
mergeAdjacent_NoFilterOthers(prev, empId) ==
  prev \o MergeWalk(SortByStart(OfEmp(prev, empId)), <<>>)

mergeAdjacent(prev, empId) ==
  NotOfEmp(prev, empId) \o MergeWalk(SortByStart(OfEmp(prev, empId)), <<>>)

(* ---------------- addTaskAt ---------------- *)

NewTask(id, empId, row, type) ==
  [id |-> id, empId |-> empId, type |-> type, label |-> TYPE_LABEL[type],
   start |-> row, end |-> row + 1]

\* addTaskAt that never calls the compactor
addTaskAt_NoMerge(prev, id, empId, row, type) ==
  Append(resolveOverlaps(prev, empId, row, row + 1, NoId), NewTask(id, empId, row, type))

\* addTaskAt that resolves one row too many
addTaskAt_ResolveWide(prev, id, empId, row, type) ==
  LET resolved == resolveOverlaps(prev, empId, row, row + 2, NoId)
      added == Append(resolved, NewTask(id, empId, row, type))
  IN IF ~isTourLike(type) THEN mergeAdjacent(added, empId) ELSE added

\* the three queued setTasks updaters of addTaskAt, applied in order
addTaskAt(prev, id, empId, row, type) ==
  LET resolved == resolveOverlaps(prev, empId, row, row + 1, NoId)
      added == Append(resolved, NewTask(id, empId, row, type))
  IN IF ~isTourLike(type) THEN mergeAdjacent(added, empId) ELSE added

(* ---------------- keyboard delete ---------------- *)

removeTask(prev, taskId) == SelectSeq(prev, LAMBDA t : t.id # taskId)

(* ---------------- the state machine ---------------- *)

SeedTasks ==
  << [id |-> 1, empId |-> "e_john", type |-> "front", label |-> TYPE_LABEL["front"],
      start |-> 0, end |-> 1],
     [id |-> 2, empId |-> "e_john", type |-> "gallery", label |-> TYPE_LABEL["gallery"],
      start |-> 1, end |-> 3] >>

\* inputs offered to the operations
EmpInputs == {"e_john", "e_ghost"}

KindInputs == {"gallery", "front", "tour"}

RowInputs == (-1 .. MaxRow - 1) \cup {TOTAL_ROWS}

RangeInputs == {r \in (0..MaxRow) \X (0..MaxRow) : r[1] < r[2]}

Ids(s) == {s[i].id : i \in 1..Len(s)}

NoOp == [op |-> "init", empId |-> "", row |-> 0, start |-> 0, end |-> 0,
         type |-> "", id |-> NoId]

\* no conversion asked for
NoClock == [phase |-> "idle", src |-> "", row |-> 0, time |-> <<>>, back |-> 0]

Init ==
  /\ tasks = SeedTasks
  /\ seq = 2
  /\ selectedId = NoId
  /\ pre = SeedTasks
  /\ last = NoOp
  /\ clock = NoClock

PlaceTask(empId, row, type) ==
  /\ seq < MaxSeq
  /\ seq' = seq + 1
  /\ tasks' = addTaskAt(tasks, seq + 1, empId, row, type)
  /\ selectedId' = seq + 1
  /\ pre' = tasks
  /\ last' = [NoOp EXCEPT !.op = "place", !.empId = empId, !.row = row,
                          !.start = row, !.end = row + 1, !.type = type, !.id = seq + 1]
  /\ UNCHANGED clock

ResolveOverlaps(empId, start, end, exceptId) ==
  /\ tasks' = resolveOverlaps(tasks, empId, start, end, exceptId)
  /\ pre' = tasks
  /\ last' = [NoOp EXCEPT !.op = "resolve", !.empId = empId, !.start = start,
                          !.end = end, !.id = exceptId]
  /\ UNCHANGED <<seq, selectedId, clock>>

MergeAdjacent(empId) ==
  /\ tasks' = mergeAdjacent(tasks, empId)
  /\ pre' = tasks
  /\ last' = [NoOp EXCEPT !.op = "merge", !.empId = empId]
  /\ UNCHANGED <<seq, selectedId, clock>>

\* onKey, Delete/Backspace branch: removes the tasks whose id is selectedId and
\* clears the selection; with nothing selected it changes nothing
RemoveTask ==
  /\ tasks' = IF selectedId # NoId THEN removeTask(tasks, selectedId) ELSE tasks
  /\ selectedId' = NoId
  /\ pre' = tasks
  /\ last' = [NoOp EXCEPT !.op = "remove", !.id = selectedId]
  /\ UNCHANGED <<seq, clock>>

\* onKey, Escape branch: clears the selection
ClearSelection ==
  /\ selectedId' = NoId
  /\ pre' = tasks
  /\ last' = [NoOp EXCEPT !.op = "escape", !.id = selectedId]
  /\ UNCHANGED <<tasks, seq, clock>>

\* a click on a stored block makes it the selected one (the handler is not
\* part of the source excerpt; removeTask(taskId) of the interface is this
\* step followed by RemoveTask)
SelectTask(taskId) ==
  /\ selectedId' = taskId
  /\ pre' = tasks
  /\ last' = [NoOp EXCEPT !.op = "select", !.id = taskId]
  /\ UNCHANGED <<tasks, seq, clock>>

Next ==
  \/ \E e \in EmpInputs, r \in RowInputs, k \in KindInputs : PlaceTask(e, r, k)
  \/ \E e \in EmpInputs : MergeAdjacent(e)
  \/ RemoveTask
  \/ ClearSelection

Spec == Init /\ [][Next]_vars

\* the program with the selection of any stored block
NextSelect ==
  \/ \E e \in EmpInputs, r \in RowInputs, k \in KindInputs : PlaceTask(e, r, k)
  \/ \E x \in Ids(tasks) : SelectTask(x)
  \/ RemoveTask
  \/ ClearSelection

SpecSelect == Init /\ [][NextSelect]_vars

(* ---------------- the time conversions ---------------- *)

\* every valid row
RowDomain == 0 .. TOTAL_ROWS - 1

\* wall-clock times handed to toRow: quarter hours and times in between, from
\* before the day start to after its end
HourInputs == 8 .. 17

MinuteInputs == {0, 15, 30, 45, 7, 59}

TimeInputs ==
  { PadStart2(ToString(h)) \o <<":">> \o PadStart2(ToString(m)) :
      h \in HourInputs, m \in MinuteInputs }

InitTime ==
  /\ tasks = SeedTasks
  /\ seq = 2
  /\ selectedId = NoId
  /\ pre = SeedTasks
  /\ last = NoOp
  /\ \/ \E r \in RowDomain : clock = [NoClock EXCEPT !.phase = "row", !.src = "row", !.row = r]
     \/ \E t \in TimeInputs :
          clock = [NoClock EXCEPT !.phase = "time", !.src = "time", !.time = t]

RowToTime ==
  /\ clock.phase = "row"
  /\ clock' = [clock EXCEPT !.phase = "time", !.time = rowToTime(clock.row)]
  /\ UNCHANGED <<tasks, seq, selectedId, pre, last>>

ToRow ==
  /\ clock.phase = "time"
  /\ clock' = [clock EXCEPT !.phase = "done", !.back = toRow(clock.time)]
  /\ UNCHANGED <<tasks, seq, selectedId, pre, last>>

NextTime == RowToTime \/ ToRow

SpecTime == InitTime /\ [][NextTime]_vars

(* ---------------- calls that respect the preconditions ---------------- *)

\* rows with 0 <= row < TOTAL_ROWS, the last row included
ValidRowInputs == (0 .. MaxRow - 1) \cup {TOTAL_ROWS - 1}

\* ranges with 0 <= start < end <= TOTAL_ROWS
ValidRangeInputs == RangeInputs

\* employees whose timeline is resolved directly: those of the roster
ResolveEmpInputs == EmpInputs \cap EmployeeIds

\* the seeded program driven by placeTask, resolveOverlaps, mergeAdjacent and
\* removeTask calls whose arguments satisfy the stated preconditions
NextValid ==
  \/ \E e \in EmpInputs, r \in ValidRowInputs, k \in KindInputs : PlaceTask(e, r, k)
  \/ \E e \in ResolveEmpInputs, rg \in ValidRangeInputs, x \in Ids(tasks) \cup {NoId} :
        ResolveOverlaps(e, rg[1], rg[2], x)
  \/ \E e \in EmpInputs : MergeAdjacent(e)
  \/ RemoveTask
  \/ ClearSelection

SpecValid == Init /\ [][NextValid]_vars

(* ---------------- the operations on an arbitrary store ---------------- *)

\* (type, label) pairs of the tasks of an arbitrary store; a label is the
\* rendered text and need not be the canonical label of the type
LookInputs ==
  { <<"gallery", "Gallery">>, <<"gallery", "Lobby">>, <<"front", "Front Desk">>,
    <<"tour", "Public Tour">>, <<"school-program", "School Program">> }

FnShapes ==
  { [empId |-> "e_john", type |-> lk[1], label |-> lk[2], start |-> r[1], end |-> r[2]] :
      lk \in LookInputs, r \in RangeInputs }
  \cup
  { [empId |-> "e_mary", type |-> "gallery", label |-> "Gallery",
     start |-> r[1], end |-> r[2]] : r \in RangeInputs }

MkTask(i, sh) ==
  [id |-> i, empId |-> sh.empId, type |-> sh.type, label |-> sh.label,
   start |-> sh.start, end |-> sh.end]

FnEmpInputs == {"e_john", "e_mary"}

InitFn ==
  /\ \E n \in 0..MaxTasks : \E f \in [1..n -> FnShapes] :
        tasks = [i \in 1..n |-> MkTask(i, f[i])]
  /\ seq = Len(tasks)
  /\ selectedId = NoId
  /\ pre = tasks
  /\ last = NoOp
  /\ clock = NoClock

\* one operation is applied to the store drawn by InitFn
NextFn ==
  /\ last.op = "init"
  /\ \/ \E e \in FnEmpInputs, rg \in RangeInputs, x \in Ids(tasks) \cup {NoId} :
           ResolveOverlaps(e, rg[1], rg[2], x)
     \/ \E e \in FnEmpInputs : MergeAdjacent(e)
     \/ \E e \in FnEmpInputs, r \in 0 .. MaxRow - 1, k \in KindInputs : PlaceTask(e, r, k)

SpecFn == InitFn /\ [][NextFn]_vars


(* ---------------- properties ---------------- *)

Overlap(a, b) == a.start < b.end /\ b.start < a.end

\* t lies outside [start, end)
Outside(t, start, end) == t.end <= start \/ t.start >= end

TasksOf(s, empId) == {t \in Range(s) : t.empId = empId}

OthersOf(s, empId) == {t \in Range(s) : t.empId # empId}

WithId(s, id) == {i \in 1..Len(s) : s[i].id = id}

DistinctIds(s) == \A i, j \in 1..Len(s) : s[i].id = s[j].id => i = j

NonOverlapping(s, empId) ==
  \A i, j \in 1..Len(s) :
    (i # j /\ s[i].empId = empId /\ s[j].empId = empId) => ~Overlap(s[i], s[j])

ValidRow(row) == 0 <= row /\ row < TOTAL_ROWS

\* C1: starting from the seeded store, after any sequence of placeTask calls
\* no two distinct stored tasks of one employee have overlapping [start,end)
\* ranges.
C1_NoOverlap ==
  \A i, j \in 1..Len(tasks) :
    (i # j /\ tasks[i].empId = tasks[j].empId) => ~Overlap(tasks[i], tasks[j])

\* a placement on a valid row that hit an existing task of another kind, which
\* the resolver had to cut back, and the new task is stored
C1_Witness ==
  /\ last.op = "place"
  /\ ValidRow(last.row)
  /\ \E t \in TasksOf(pre, last.empId) :
       /\ t.type # last.type
       /\ t.start < last.row
       /\ t.end > last.row
  /\ NewTask(last.id, last.empId, last.row, last.type) \in Range(tasks)

\* C2: resolveOverlaps(employeeId, start, end) without exceptId retains a task
\* of the employee lying outside [start,end), removes a covered one, cuts an
\* overlapping one that starts before start (and ends by end) to end = start,
\* cuts an overlapping one that starts at or after start (and ends after end)
\* to start = end; afterwards no task of the employee overlaps [start,end).
C2_FourWay ==
  (last.op = "resolve" /\ last.id = NoId /\ DistinctIds(pre)) =>
    /\ \A t \in TasksOf(pre, last.empId) :
         /\ Outside(t, last.start, last.end) =>
              /\ t \in Range(tasks)
              /\ Cardinality(WithId(tasks, t.id)) = 1
         /\ (~Outside(t, last.start, last.end)
               /\ t.start >= last.start /\ t.end <= last.end) =>
              WithId(tasks, t.id) = {}
         /\ (~Outside(t, last.start, last.end)
               /\ t.start < last.start /\ t.end <= last.end) =>
              /\ [t EXCEPT !.end = last.start] \in Range(tasks)
              /\ Cardinality(WithId(tasks, t.id)) = 1
         /\ (~Outside(t, last.start, last.end)
               /\ t.start >= last.start /\ t.end > last.end) =>
              /\ [t EXCEPT !.start = last.end] \in Range(tasks)
              /\ Cardinality(WithId(tasks, t.id)) = 1
    /\ \A u \in TasksOf(tasks, last.empId) : Outside(u, last.start, last.end)

\* one call that cut one task on the left and dropped or right-cut another
C2_Witness ==
  /\ last.op = "resolve" /\ last.id = NoId /\ DistinctIds(pre)
  /\ \E t \in TasksOf(pre, last.empId) :
       /\ t.start < last.start /\ t.end > last.start /\ t.end <= last.end
       /\ [t EXCEPT !.end = last.start] \in Range(tasks)
  /\ \E t \in TasksOf(pre, last.empId) :
       /\ t.start >= last.start /\ t.start < last.end
       /\ t \notin Range(tasks)

\* C3: a task of the employee (not the exempt one) that starts before start
\* and ends after end is replaced by exactly the two tasks [t.start, start)
\* and [end, t.end), both with t's id, kind, label and employee; t itself is
\* no longer stored.
C3_Split ==
  (last.op = "resolve" /\ DistinctIds(pre)) =>
    \A t \in TasksOf(pre, last.empId) :
      (t.id # last.id /\ t.start < last.start /\ t.end > last.end) =>
        /\ [t EXCEPT !.end = last.start] \in Range(tasks)
        /\ [t EXCEPT !.start = last.end] \in Range(tasks)
        /\ Cardinality(WithId(tasks, t.id)) = 2
        /\ t \notin Range(tasks)

C3_Witness ==
  /\ last.op = "resolve" /\ DistinctIds(pre)
  /\ \E t \in TasksOf(pre, last.empId) :
       /\ t.id # last.id /\ t.start < last.start /\ t.end > last.end
       /\ Cardinality(WithId(tasks, t.id)) = 2

\* the task of E that precedes t in start order (E non-overlapping)
HasPred(E, t) == \E p \in E : p.start < t.start

PredOf(E, t) ==
  CHOOSE p \in E : p.start < t.start /\ \A q \in E : q.start < t.start => q.start <= p.start

\* the merge conditions of the claim, for t and its predecessor
Eligible(E, t) ==
  /\ HasPred(E, t)
  /\ LET p == PredOf(E, t)
     IN /\ p.type = t.type
        /\ p.label = t.label
        /\ p.end = t.start
        /\ t.type \notin {"tour", "school-program"}
        /\ p.type \notin {"tour", "school-program"}

\* the tasks merged into t: t and the unbroken run of eligible tasks after it
RunOf(E, t) ==
  {u \in E : u.start >= t.start /\
             \A v \in E : (t.start < v.start /\ v.start <= u.start) => Eligible(E, v)}

RunEnd(E, t) ==
  LET R == RunOf(E, t)
  IN (CHOOSE u \in R : \A v \in R : v.start <= u.start).end

\* C4: on a store in which the employee's tasks do not overlap, mergeAdjacent
\* merges a task into its predecessor in start order (extending the
\* predecessor's end) iff they have the same kind and label, are contiguous and
\* neither is tour-like; every other task stays a separate task with its start.
C4_MergeIff ==
  (/\ last.op = "merge"
   /\ DistinctIds(pre)
   /\ NonOverlapping(pre, last.empId)
   /\ \A t \in TasksOf(pre, last.empId) : t.start < t.end) =>
    LET E == TasksOf(pre, last.empId)
        P == TasksOf(tasks, last.empId)
    IN /\ \A t \in E : Eligible(E, t) => WithId(tasks, t.id) = {}
       /\ \A t \in E : ~Eligible(E, t) => [t EXCEPT !.end = RunEnd(E, t)] \in P
       /\ Cardinality(P) = Cardinality({t \in E : ~Eligible(E, t)})
       /\ Len(OfEmp(tasks, last.empId)) = Cardinality(P)

\* one call that merged a task and left a contiguous pair apart
C4_Witness ==
  /\ last.op = "merge" /\ DistinctIds(pre) /\ NonOverlapping(pre, last.empId)
  /\ LET E == TasksOf(pre, last.empId)
     IN /\ \A t \in E : t.start < t.end
        /\ \E t \in E : Eligible(E, t) /\ WithId(tasks, t.id) = {}
        /\ \E t \in E : /\ ~Eligible(E, t)
                        /\ HasPred(E, t)
                        /\ PredOf(E, t).end = t.start
                        /\ t \in Range(tasks)

\* C5: tour-like tasks are never merged: every stored tour-like task has the
\* one-slot range it was placed with, and a placeTask, mergeAdjacent or
\* removeTask call keeps every tour-like task it does not overwrite or remove
\* as the same separate record.
C5_TourLock ==
  /\ \A t \in Range(tasks) : isTourLike(t.type) => t.end = t.start + 1
  /\ last.op \in {"place", "merge", "remove"} =>
       \A t \in Range(pre) :
         (/\ isTourLike(t.type)
          /\ ~(last.op = "place" /\ t.empId = last.empId /\ t.start = last.row)
          /\ ~(last.op = "remove" /\ t.id = last.id)) =>
           /\ t \in Range(tasks)
           /\ Cardinality(WithId(tasks, t.id)) = 1

\* the compactor ran over two contiguous tour tasks of the same kind and label
C5_Witness ==
  /\ last.op = "merge"
  /\ \E a, b \in TasksOf(tasks, last.empId) :
       /\ isTourLike(a.type) /\ a.type = b.type /\ a.label = b.label
       /\ a.end = b.start
       /\ a \in Range(pre) /\ b \in Range(pre)

\* C6: resolveOverlaps is idempotent: applying it again with the same
\* arguments to the store it produced changes nothing.
C6_ResolveIdempotent ==
  last.op = "resolve" =>
    resolveOverlaps(tasks, last.empId, last.start, last.end, last.id) = tasks

C6_Witness ==
  /\ last.op = "resolve"
  /\ tasks # pre
  /\ \E t \in TasksOf(pre, last.empId) : t.start < last.start /\ t.end > last.end
  /\ resolveOverlaps(tasks, last.empId, last.start, last.end, last.id) = tasks

\* C7: mergeAdjacent is idempotent: applying it again to the store it produced
\* yields the same tasks in the same order.
C7_MergeIdempotent ==
  last.op = "merge" => mergeAdjacent(tasks, last.empId) = tasks

C7_Witness ==
  /\ last.op = "merge"
  /\ Len(tasks) < Len(pre)
  /\ OthersOf(tasks, last.empId) # {}
  /\ mergeAdjacent(tasks, last.empId) = tasks

\* C8: placeTask with a row outside 0 <= row < TOTAL_ROWS performs no mutation.
C8_InvalidRowNoMutation ==
  (last.op = "place" /\ ~ValidRow(last.row)) => tasks = pre

\* C9: placeTask with an employeeId that is not in the roster leaves the store
\* unchanged.
C9_UnknownEmployeeNoMutation ==
  (last.op = "place" /\ last.empId \notin EmployeeIds) => tasks = pre

\* C10: resolveOverlaps(e, ...), mergeAdjacent(e) and placeTask(e, ...) leave
\* the set of tasks of every other employee as it was.
C10_OtherEmployeesUntouched ==
  last.op \in {"resolve", "merge", "place"} =>
    OthersOf(tasks, last.empId) = OthersOf(pre, last.empId)

\* a call that changed the employee's tasks while another employee had a task
\* in the affected range
C10_Witness ==
  /\ last.op \in {"resolve", "place"}
  /\ TasksOf(tasks, last.empId) # TasksOf(pre, last.empId)
  /\ \E t \in OthersOf(pre, last.empId) : ~Outside(t, last.start, last.end)
  /\ OthersOf(tasks, last.empId) = OthersOf(pre, last.empId)

\* two stored tasks of one employee that the compactor would merge
Mergeable(a, b) ==
  /\ a.empId = b.empId
  /\ a.end = b.start
  /\ a.type = b.type
  /\ a.label = b.label
  /\ a.type \notin {"tour", "school-program"}
  /\ b.type \notin {"tour", "school-program"}

\* C11: starting from the seeded store, after every placeTask (of any kind,
\* tour-like included) and removeTask call no employee has two stored tasks
\* that are contiguous, of the same kind and label, and both not tour-like.
C11_PostCompaction ==
  \A i, j \in 1..Len(tasks) : i # j => ~Mergeable(tasks[i], tasks[j])

\* a tour-like placement, which does not call the compactor, that cut an
\* existing task of the employee next to which the new task now lies
C11_Witness ==
  /\ last.op = "place"
  /\ last.type \in {"tour", "school-program"}
  /\ \E t \in TasksOf(pre, last.empId) :
       /\ t.start < last.row /\ t.end > last.row
       /\ [t EXCEPT !.end = last.row] \in Range(tasks)
  /\ NewTask(last.id, last.empId, last.row, last.type) \in Range(tasks)

\* C15: right after placeTask(employeeId, row, kind) on a valid row the store
\* holds a task of that employee whose id is the id of the created task (the
\* selected id) and whose range contains row.
C15_HandleValid ==
  (last.op = "place" /\ ValidRow(last.row)) =>
    /\ selectedId = last.id
    /\ \E t \in TasksOf(tasks, last.empId) :
         t.id = last.id /\ t.start <= last.row /\ last.row < t.end

\* C16: no two distinct stored tasks have the same id.
C16_UniqueIds == DistinctIds(tasks)

\* C17: removeTask(taskId) removes at most one task, and every other stored
\* task stays in the store unchanged.
C17_RemoveSingleBlock ==
  last.op = "remove" =>
    /\ Len(pre) - Len(tasks) <= 1
    /\ \E i \in 1..Len(pre) + 1 :
         \A j \in 1..Len(pre) : j # i => pre[j] \in Range(tasks)

\* C12: starting from the seeded store, after any sequence of placeTask calls
\* on valid rows, resolveOverlaps calls on valid ranges, mergeAdjacent calls
\* and removeTask calls every stored task has 0 <= start < end <= TOTAL_ROWS.
C12_ValidRanges ==
  \A t \in Range(tasks) : 0 <= t.start /\ t.start < t.end /\ t.end <= TOTAL_ROWS

\* a resolveOverlaps call that cut a task at one end or split it
C12_Witness ==
  /\ last.op = "resolve"
  /\ \E t \in TasksOf(pre, last.empId) :
       /\ t.id # last.id
       /\ ~Outside(t, last.start, last.end)
       /\ \/ t.start < last.start /\ [t EXCEPT !.end = last.start] \in Range(tasks)
          \/ t.end > last.end /\ [t EXCEPT !.start = last.end] \in Range(tasks)

\* C14: resolveOverlaps(employeeId, start, end, exceptId) leaves the task
\* whose id is exceptId unchanged, and every other stored task of that
\* employee lies outside [start,end) afterwards.
C14_ExceptIdExemption ==
  (last.op = "resolve" /\ WithId(pre, last.id) # {}) =>
    \E i \in WithId(pre, last.id) :
      /\ pre[i] \in Range(tasks)
      /\ \A j \in 1..Len(tasks) :
           (tasks[j].empId = last.empId /\ tasks[j] # pre[i]) =>
             Outside(tasks[j], last.start, last.end)

\* C13: for every valid row r, toRow(rowToTime(r)) = r.
C13_RoundTrip ==
  (clock.phase = "done" /\ clock.src = "row") => clock.back = clock.row

\* the last row, whose time 15:45 was formatted and parsed back
C13_Witness ==
  /\ clock.phase = "done" /\ clock.src = "row"
  /\ clock.row = TOTAL_ROWS - 1
  /\ clock.time = <<"1", "5", ":", "4", "5">>
  /\ clock.back = clock.row

\* the tasks of the employee that cover slot r
Covering(s, empId, r) == {i \in 1..Len(s) : s[i].empId = empId /\ s[i].start <= r /\ r < s[i].end}

\* the (kind, label) pairs seen at slot r of the employee's timeline
LooksAt(s, empId, r) == {<<s[i].type, s[i].label>> : i \in Covering(s, empId, r)}

\* the slots some task of pre can cover, and the slots next to them
SlotDomain == -1 .. MaxRow + 1

\* C18: on a store in which the employee's tasks do not overlap, placeTask on
\* a valid row leaves that row covered by exactly one task of the employee, of
\* the given kind with its canonical label, and leaves every other slot with
\* the (kind, label) it had, or uncovered if it was uncovered.
C18_OnlyPlacedSlot ==
  (last.op = "place" /\ ValidRow(last.row) /\ NonOverlapping(pre, last.empId)) =>
    /\ Cardinality(Covering(tasks, last.empId, last.row)) = 1
    /\ LooksAt(tasks, last.empId, last.row) = {<<last.type, TYPE_LABEL[last.type]>>}
    /\ \A r \in SlotDomain :
         r # last.row =>
           /\ LooksAt(tasks, last.empId, r) = LooksAt(pre, last.empId, r)
           /\ Cardinality(Covering(tasks, last.empId, r)) =
                Cardinality(Covering(pre, last.empId, r))

\* a placement onto a task of another look that was compacted with a
\* neighbour of its own look
C18_Witness ==
  /\ last.op = "place" /\ ValidRow(last.row) /\ NonOverlapping(pre, last.empId)
  /\ \E t \in TasksOf(pre, last.empId) :
       /\ t.start <= last.row /\ last.row < t.end
       /\ <<t.type, t.label>> # <<last.type, TYPE_LABEL[last.type]>>
  /\ \E i \in Covering(tasks, last.empId, last.row) :
       tasks[i].end - tasks[i].start > 1
  /\ Cardinality(Covering(tasks, last.empId, last.row)) = 1

====
